---- MODULE Spec2Model ----
(***************************************************************************)
(* A model of notionMCP_server.py: the NotionMCP server's startup, its     *)
(* text-to-block converter, the title lookup, and the tool handlers that   *)
(* write to the remote page store through the Notion client.               *)
(*                                                                         *)
(* Strings of the program are sequences of one-character strings, so that  *)
(* split, strip, startswith, find, lower and slicing are computed as the   *)
(* Python code computes them.                                              *)
(***************************************************************************)
EXTENDS Integers, Sequences, FiniteSets, TLC

\* Python's None where a string may stand: a value no string of the model equals
None == <<"<None>">>

(***************************************************************************)
(* Python string primitives used by the program.                           *)
(***************************************************************************)
NL == "\n"

\* str.strip() removes leading and trailing whitespace characters.
IsSpace(c) == c \in {" ", "\t", "\r"}

RECURSIVE LStrip(_)
LStrip(s) ==
    IF s # <<>> /\ IsSpace(Head(s)) THEN LStrip(Tail(s)) ELSE s

RECURSIVE RStrip(_)
RStrip(s) ==
    IF s # <<>> /\ IsSpace(s[Len(s)]) THEN RStrip(SubSeq(s, 1, Len(s) - 1)) ELSE s

\* a strip that leaves the line as it stands
Unstripped(s) == s

Strip(s) == RStrip(LStrip(s))

\* s.startswith(p)
StartsWith(s, p) == Len(s) >= Len(p) /\ SubSeq(s, 1, Len(p)) = p

\* s[k:] with a 0-based k >= 0
SliceFrom(s, k) == SubSeq(s, k + 1, Len(s))

\* s.find(p): the lowest 0-based index at which p occurs, or -1
Occurs(s, p, k) == k + Len(p) <= Len(s) /\ SubSeq(s, k + 1, k + Len(p)) = p

Find(s, p) ==
    IF \E k \in 0..Len(s) : Occurs(s, p, k)
    THEN CHOOSE k \in 0..Len(s) :
            Occurs(s, p, k) /\ \A h \in 0..(k - 1) : ~Occurs(s, p, h)
    ELSE -1

\* content.split('\n'): the text between consecutive newlines, at least one line
Split(s) ==
    LET cuts  == {k \in 1..Len(s) : s[k] = NL}
        n     == Cardinality(cuts)
        \* how many newlines precede the newline at k
        order == [k \in cuts |-> Cardinality({h \in cuts : h < k})]
        \* position of the j-th newline; 0 before the first, Len(s)+1 after the last
        cut   == [j \in 0..(n + 1) |->
                    IF j = 0 THEN 0
                    ELSE IF j = n + 1 THEN Len(s) + 1
                    ELSE CHOOSE k \in cuts : order[k] = j - 1]
    IN  [j \in 1..(n + 1) |-> SubSeq(s, cut[j - 1] + 1, cut[j] - 1)]

\* "\n".join(lines[lo..hi]), computed by halving the range
RECURSIVE JoinRange(_, _, _)
JoinRange(lines, lo, hi) ==
    IF lo > hi THEN <<>>
    ELSE IF lo = hi THEN lines[lo]
    ELSE LET mid == (lo + hi) \div 2
         IN  JoinRange(lines, lo, mid) \o <<NL>> \o JoinRange(lines, mid + 1, hi)

\* "\n".join(lines)
Join(lines) == JoinRange(lines, 1, Len(lines))

\* a lower() that leaves every letter as it is (a case-sensitive comparison)
LowerCharUnchanged(c) == c

\* str.lower() on the letters the model uses
LowerChar(c) ==
    CASE c = "T" -> "t"
      [] c = "U" -> "u"
      [] c = "X" -> "x"
      [] OTHER   -> c

Lower(s) == [k \in 1..Len(s) |-> LowerChar(s[k])]

(***************************************************************************)
(* _content_to_notion_blocks: plain text to Notion blocks.                 *)
(* A block keeps what the dictionary built by the code holds: its type,    *)
(* the text content and, for a code block, the language.                   *)
(***************************************************************************)
\* the backtick character (a TLA+ string literal cannot hold it)
BT == "<backtick>"

Fence == <<BT, BT, BT>>
PlainText == <<"p", "l", "a", "i", "n", " ", "t", "e", "x", "t">>

Block(type, text) == [type |-> type, content |-> text]
CodeBlock(language, text) == [type |-> "code", language |-> language, content |-> text]

Digits1to9 == {"1", "2", "3", "4", "5", "6", "7", "8", "9"}

\* a test for a numbered item that takes the ordinal 0 as well
IsNumberedFromZero(line) ==
    \E d \in Digits1to9 \cup {"0"} : StartsWith(line, <<d, ".", " ">>)

\* any(line.startswith(f"{j}. ") for j in range(1, 10))
IsNumbered(line) == \E d \in Digits1to9 : StartsWith(line, <<d, ".", " ">>)

\* the if/elif chain of lines 302-376 on one stripped, non-empty, non-fence line;
\* the result is the sequence of blocks the branch appends
LineBlocks(line) ==
    IF StartsWith(line, <<"#", " ">>) THEN
        <<Block("heading_1", SliceFrom(line, 2))>>
    ELSE IF StartsWith(line, <<"#", "#", " ">>) THEN
        <<Block("heading_2", SliceFrom(line, 3))>>
    ELSE IF StartsWith(line, <<"#", "#", "#", " ">>) THEN
        <<Block("heading_3", SliceFrom(line, 4))>>
    ELSE IF StartsWith(line, <<"-", " ">>) \/ StartsWith(line, <<"*", " ">>) THEN
        <<Block("bulleted_list_item", SliceFrom(line, 2))>>
    ELSE IF IsNumbered(line) THEN
        LET space_index == Find(line, <<".", " ">>)
        IN  IF space_index # -1
            THEN <<Block("numbered_list_item", SliceFrom(line, space_index + 2))>>
            ELSE <<>>
    ELSE
        <<Block("paragraph", line)>>

\* a test for the closing fence on the line as it stands
IsFenceLineUntrimmed(lines, k) == StartsWith(lines[k], Fence)

\* the inner while loop of lines 279-281: the index of the first line at or after from
\* whose stripped form starts with the fence, or Len(lines)+1 (1-based indices)
IsFenceLine(lines, k) == StartsWith(Strip(lines[k]), Fence)

FenceEnd(lines, from) ==
    IF \E k \in from..Len(lines) : IsFenceLine(lines, k)
    THEN CHOOSE k \in from..Len(lines) :
            IsFenceLine(lines, k) /\ \A h \in from..(k - 1) : ~IsFenceLine(lines, h)
    ELSE Len(lines) + 1

\* one iteration of the while loop of lines 263-378; st.i is the 1-based index of
\* the line the iteration starts at, st.blocks the blocks appended so far
LoopBody(lines, st) ==
    LET line == Strip(lines[st.i])
    IN  IF line = <<>> THEN [i |-> st.i + 1, blocks |-> st.blocks]
        ELSE IF StartsWith(line, Fence) THEN
            LET language     == IF Len(line) > 3 THEN Strip(SliceFrom(line, 3)) ELSE <<>>
                j            == FenceEnd(lines, st.i + 1)
                code_content == SubSeq(lines, st.i + 1, j - 1)
            IN  [i      |-> IF j <= Len(lines) THEN j + 1 ELSE j,
                 blocks |-> Append(st.blocks,
                                CodeBlock(IF language # <<>> THEN language ELSE PlainText,
                                          Join(code_content)))]
        ELSE [i |-> st.i + 1, blocks |-> st.blocks \o LineBlocks(line)]

\* up to n iterations of the loop "while i < len(lines)" from st, by halving n
RECURSIVE WhileLoop(_, _, _)
WhileLoop(lines, st, n) ==
    IF n = 0 \/ st.i > Len(lines) THEN st
    ELSE IF n = 1 THEN LoopBody(lines, st)
    ELSE WhileLoop(lines, WhileLoop(lines, st, n \div 2), n - (n \div 2))

\* every iteration moves i forward, so Len(lines) iterations end the loop
_content_to_notion_blocks(content) ==
    LET lines == Split(content)
    IN  WhileLoop(lines, [i |-> 1, blocks |-> <<>>], Len(lines)).blocks

(***************************************************************************)
(* The read-back renderer of get_notion_page_content (lines 579-613).      *)
(***************************************************************************)
\* a renderer that gives the text of a block without its marker
RenderBlockPlain(block) == <<block.content>>

\* the text one block contributes to content_lines; <<>> when it contributes none
RenderBlock(block) ==
    CASE block.type = "paragraph"          -> <<block.content>>
      [] block.type = "heading_1"          -> <<<<"#", " ">> \o block.content>>
      [] block.type = "heading_2"          -> <<<<"#", "#", " ">> \o block.content>>
      [] block.type = "heading_3"          -> <<<<"#", "#", "#", " ">> \o block.content>>
      [] block.type = "bulleted_list_item" -> <<<<"-", " ">> \o block.content>>
      [] block.type = "numbered_list_item" -> <<<<"1", ".", " ">> \o block.content>>
      [] block.type = "code"               ->
            <<Fence \o block.language \o <<NL>> \o block.content \o <<NL>> \o Fence>>
      [] OTHER                             -> <<>>

\* content_lines for bs[lo..hi], by halving the range
RECURSIVE ContentLines(_, _, _)
ContentLines(bs, lo, hi) ==
    IF lo > hi THEN <<>>
    ELSE IF lo = hi THEN RenderBlock(bs[lo])
    ELSE LET mid == (lo + hi) \div 2
         IN  ContentLines(bs, lo, mid) \o ContentLines(bs, mid + 1, hi)

\* a renderer that gives the text of the first block only
RenderFirstOnly(bs) == IF bs = <<>> THEN <<>> ELSE Join(RenderBlock(bs[1]))

Render(bs) == Join(ContentLines(bs, 1, Len(bs)))

(***************************************************************************)
(* Inputs of the model.                                                    *)
(***************************************************************************)
\* how many tool invocations a behaviour of Spec / of SpecUpsert makes
MaxInvocations == 1
MaxUpserts == 3

DigitChar(d) == <<"0", "1", "2", "3", "4", "5", "6", "7", "8", "9">>[d + 1]

RECURSIVE NumStr(_)
NumStr(n) == IF n < 10 THEN <<DigitChar(n)>> ELSE NumStr(n \div 10) \o <<DigitChar(n % 10)>>

\* line k of a generated document: its number behind a marker that depends on k
GenLine(k) ==
    CASE k % 5 = 0 -> <<"#", " ">> \o NumStr(k)
      [] k % 5 = 1 -> <<"-", " ">> \o NumStr(k)
      [] k % 5 = 2 -> <<"3", ".", " ">> \o NumStr(k)
      [] k % 5 = 3 -> <<"n">> \o NumStr(k)
      [] OTHER     -> <<"#", "#", " ">> \o NumStr(k)

\* a document of n non-blank lines, each giving one block
Gen(n) == Join([k \in 1..n |-> GenLine(k)])

Hello == <<"h", "e", "l", "l", "o">>

\* requested titles: "t" meets stored pages, "U" and "u" differ only by case
Titles == {<<"t">>, <<"U">>, <<"u">>}

\* contents: no block, one paragraph, two full batches, two batches and a half
batch_size == 100
Contents == {<<>>, Hello, Gen(2 * batch_size), Gen(2 * batch_size + batch_size \div 2)}
UpsertContents == {Hello}

\* the blocks of each content, computed once for all the steps that parse it
ParsedBlocks == [c \in Contents |-> _content_to_notion_blocks(c)]

\* parent_id arguments: omitted, empty, a page id
ParentArg == <<"P", "-", "1">>
ParentIds == {None, <<>>, ParentArg}

Modes == {"replace", "append"}

\* the process environment: each variable unset, empty or set
EnvParent == <<"P", "-", "0">>
ApiKeys == {None, <<>>, <<"k">>}
EnvParents == {None, EnvParent}

UpsertTools == {"write_to_notion", "append_to_notion"}
AllTools == UpsertTools \cup {"create_notion_page", "search_notion_pages",
                              "get_notion_page_content", "test_connection"}

(***************************************************************************)
(* The remote store behind the Notion client.  A page holds its id, its    *)
(* url, the two title-bearing property slots (each a list of rich-text     *)
(* contents, empty when the slot is absent or unpopulated) and its child   *)
(* blocks.  Search hits are pages without their children.                  *)
(***************************************************************************)
Page(id, title, name, children) ==
    [id |-> id, url |-> <<"page-url">> \o id, title |-> title, Name |-> name,
     children |-> children]

\* the pages the workspace holds before the server starts
InitialPages ==
    << Page(<<"p", "-", "1">>, <<>>, <<>>, <<>>),
       Page(<<"p", "-", "2">>, <<<<"T", "x">>>>, <<>>, <<>>),
       Page(<<"p", "-", "3">>, <<>>, <<<<"T">>>>, <<>>),
       Page(<<"p", "-", "4">>, <<<<"t">>>>, <<<<"z">>>>, <<>>) >>

MissingId == <<"p", "-", "9">>

Hit(page) == [id |-> page.id, url |-> page.url, title |-> page.title, Name |-> page.Name]

AllHits(store) == [k \in 1..Len(store) |-> Hit(store[k])]

Reverse(q) == [k \in 1..Len(q) |-> q[Len(q) + 1 - k]]

\* what notion.search can answer: an exception, or a list of hits
Raised == [ok |-> FALSE]
Returned(results) == [ok |-> TRUE, results |-> results]

SearchOutcomes(store) ==
    {Raised, Returned(AllHits(store)), Returned(Reverse(AllHits(store))), Returned(<<>>)}

\* a search that succeeds and returns every stored page, in either order
ReliableSearchOutcomes(store) ==
    {Returned(AllHits(store)), Returned(Reverse(AllHits(store)))}

\* the store rejects a write of more than 100 blocks (comment of line 185) and a
\* page whose parent id is missing (warning of line 47)
notion_block_limit == 100
GatewayAccepts(children) == Len(children) <= notion_block_limit
ValidParent(parent) == parent.page_id # None /\ parent.page_id # <<>>

\* the id of the next page the store creates
NewId(store) == <<"n", "-">> \o NumStr(Len(store) - Len(InitialPages) + 1)

IndexOf(store, id) == CHOOSE k \in 1..Len(store) : store[k].id = id
HasPage(store, id) == \E k \in 1..Len(store) : store[k].id = id

\* the store after blocks.children.append(block_id, children) succeeded
StoreAppend(store, id, children) ==
    [store EXCEPT ![IndexOf(store, id)].children = @ \o children]

VARIABLES
    env,                \* the process environment: NOTION_API_KEY, NOTION_PARENT_ID
    phase,              \* "start", "inited", "registered", "serving" or "exited"
    exit_code,          \* the statuses sys.exit was called with: <<>> or <<1>>
    notion_api_key,     \* self.notion_api_key
    notion_parent_id,   \* self.notion_parent_id
    tools,              \* the tools registered on self.mcp
    pages,              \* the remote store
    pc,                 \* where the running tool handler is; "idle" or "done" between calls
    tool,               \* the tool being run
    args,               \* its arguments
    existing_page_id,   \* local of write_to_notion / append_to_notion
    blocks,             \* local of _update_notion_page / _append_to_notion_page
    i,                  \* loop variable of the batch loop
    calls,              \* the calls the handler has made on the Notion client, in order
    result,             \* what the handler returned to the RPC layer
    invocations         \* how many tool calls were dispatched

vars == <<env, phase, exit_code, notion_api_key, notion_parent_id, tools, pages, pc, tool,
          args, existing_page_id, blocks, i, calls, result, invocations>>

startup == <<env, phase, exit_code, notion_api_key, notion_parent_id, tools>>
handler == <<pc, tool, args, existing_page_id, blocks, i, calls, result, invocations>>

\* Python truthiness of an optional string
Truthy(v) == v # None /\ v # <<>>

\* no value returned yet
NoResult == [pending |-> TRUE]

NoArgs == [title |-> None, content |-> None, parent_id |-> None, mode |-> "<none>",
           query |-> None, page_id |-> None]

Init ==
    /\ env \in [NOTION_API_KEY : ApiKeys, NOTION_PARENT_ID : EnvParents]
    /\ phase = "start"
    /\ exit_code = <<>>
    /\ notion_api_key = None
    /\ notion_parent_id = None
    /\ tools = {}
    /\ pages = InitialPages
    /\ pc = "idle"
    /\ tool = "<none>"
    /\ args = NoArgs
    /\ existing_page_id = None
    /\ blocks = <<>>
    /\ i = 0
    /\ calls = <<>>
    /\ result = NoResult
    /\ invocations = 0

(***************************************************************************)
(* Startup: NotionMCP.__init__ and run.                                    *)
(***************************************************************************)
\* an initialisation that only warns when the API key is missing
_init_notion_warns ==
    /\ phase = "start"
    /\ notion_api_key' = env.NOTION_API_KEY
    /\ notion_parent_id' = env.NOTION_PARENT_ID
    /\ phase' = "inited"
    /\ UNCHANGED <<env, exit_code, tools, pages, handler>>

\* _init_notion (lines 39-54): read the environment; without an API key the
\* ValueError is caught and the process exits with status 1
_init_notion ==
    /\ phase = "start"
    /\ notion_api_key' = env.NOTION_API_KEY
    /\ notion_parent_id' = env.NOTION_PARENT_ID
    /\ IF ~Truthy(env.NOTION_API_KEY)
       THEN phase' = "exited" /\ exit_code' = <<1>>
       ELSE phase' = "inited" /\ exit_code' = exit_code
    /\ UNCHANGED <<env, tools, pages, handler>>

\* _register_tools (lines 382-636), reached only when _init_notion returned
_register_tools ==
    /\ phase = "inited"
    /\ tools' = AllTools
    /\ phase' = "registered"
    /\ UNCHANGED <<env, exit_code, notion_api_key, notion_parent_id, pages, handler>>

\* run (lines 638-644): serve the registered tools over stdio
run ==
    /\ phase = "registered"
    /\ phase' = "serving"
    /\ UNCHANGED <<env, exit_code, notion_api_key, notion_parent_id, tools, pages, handler>>

(***************************************************************************)
(* Dispatch of a tool call by the RPC layer.  A handler runs to completion *)
(* before the next call is dispatched (the handlers never await).          *)
(***************************************************************************)
EntryPoint(t) ==
    CASE t \in UpsertTools              -> "search"
      [] t = "create_notion_page"       -> "create_tool"
      [] t = "search_notion_pages"      -> "search_tool"
      [] t = "get_notion_page_content"  -> "get_retrieve"
      [] OTHER                          -> "test"

ArgsFor(t, contents) ==
    CASE t = "write_to_notion" ->
            {[NoArgs EXCEPT !.title = ti, !.content = c, !.parent_id = p, !.mode = m] :
                ti \in Titles, c \in contents, p \in ParentIds, m \in Modes}
      [] t = "append_to_notion" ->
            {[NoArgs EXCEPT !.title = ti, !.content = c, !.parent_id = p] :
                ti \in Titles, c \in contents, p \in ParentIds}
      [] t = "create_notion_page" ->
            {[NoArgs EXCEPT !.title = ti, !.content = c] : ti \in Titles, c \in contents}
      [] t = "search_notion_pages" ->
            {[NoArgs EXCEPT !.query = q] : q \in Titles}
      [] t = "get_notion_page_content" ->
            {[NoArgs EXCEPT !.page_id = id] :
                id \in {pages[k].id : k \in 1..Len(pages)} \cup {MissingId}}
      [] OTHER -> {NoArgs}

Invoke(toolset, contents, max) ==
    /\ phase = "serving"
    /\ pc \in {"idle", "done"}
    /\ invocations < max
    /\ \E t \in toolset \cap tools : \E a \in ArgsFor(t, contents) :
          /\ tool' = t
          /\ args' = a
          /\ pc' = EntryPoint(t)
    /\ existing_page_id' = None
    /\ blocks' = <<>>
    /\ i' = 0
    /\ calls' = <<>>
    /\ result' = NoResult
    /\ invocations' = invocations + 1
    /\ UNCHANGED <<startup, pages>>

(***************************************************************************)
(* _search_notion_page (lines 70-98).                                      *)
(***************************************************************************)
\* lines 81-85: the title of a hit, from the "title" slot, else the "Name" slot
PageTitle(page) ==
    IF page.title # <<>> THEN page.title[1]
    ELSE IF page.Name # <<>> THEN page.Name[1]
    ELSE <<>>

\* a lookup that takes a hit whose title only starts with the requested one
_search_notion_page_prefix(outcome, title) ==
    IF ~outcome.ok THEN None
    ELSE LET results == outcome.results
             Match(k) == StartsWith(Lower(PageTitle(results[k])), Lower(title))
         IN  IF \E k \in 1..Len(results) : Match(k)
             THEN results[CHOOSE k \in 1..Len(results) :
                              Match(k) /\ \A h \in 1..(k - 1) : ~Match(h)].id
             ELSE None

\* the value _search_notion_page returns for what notion.search answered
_search_notion_page(outcome, title) ==
    IF ~outcome.ok THEN None
    ELSE LET results == outcome.results
             Match(k) == Lower(PageTitle(results[k])) = Lower(title)
         IN  IF \E k \in 1..Len(results) : Match(k)
             THEN results[CHOOSE k \in 1..Len(results) :
                              Match(k) /\ \A h \in 1..(k - 1) : ~Match(h)].id
             ELSE None

\* which helper write_to_notion (lines 437-464) or append_to_notion (lines 489-503)
\* calls once the lookup has answered
Branch(t, mode, found_id) ==
    IF Truthy(found_id)
    THEN IF t = "write_to_notion" /\ mode # "append" THEN "update_enter" ELSE "append_enter"
    ELSE "create"

\* the handler's call of _search_notion_page and the branch it takes
SearchStep(outcomes) ==
    /\ pc = "search"
    /\ \E o \in outcomes :
          /\ calls' = Append(calls, [op |-> "search", query |-> args.title, response |-> o])
          /\ existing_page_id' = _search_notion_page(o, args.title)
          /\ pc' = Branch(tool, args.mode, existing_page_id')
    /\ UNCHANGED <<startup, pages, tool, args, blocks, i, result, invocations>>

(***************************************************************************)
(* _create_notion_page (lines 100-135) and the handler's return.           *)
(***************************************************************************)
\* a parent that ignores the parent_id argument
ParentDefaultOnly(parent_id, default_id) == [type |-> "page_id", page_id |-> default_id]

\* line 103
Parent(parent_id, default_id) ==
    [type |-> "page_id", page_id |-> IF Truthy(parent_id) THEN parent_id ELSE default_id]

CreateCall(parent, title, children, ok) ==
    [op |-> "create", parent |-> parent, title |-> title, children |-> children, ok |-> ok]

\* whether notion.pages.create can succeed
CreateOutcomes(parent, children) ==
    IF ValidParent(parent) /\ GatewayAccepts(children) THEN BOOLEAN ELSE {FALSE}

CreatedResult(title, page) ==
    [status |-> "created", message |-> <<"Created new Notion page", title>>,
     page_id |-> page.id, page_url |-> page.url]

\* an error record that also carries a status
ErrorWithStatus(what) == [status |-> "failed", error |-> what]

ErrorResult(what) == [error |-> what]

_create_notion_page ==
    /\ pc = "create"
    /\ LET parent   == Parent(args.parent_id, notion_parent_id)
           children == ParsedBlocks[args.content]
           page     == Page(NewId(pages), <<args.title>>, <<>>, children)
       IN  /\ blocks' = children
           /\ \E ok \in CreateOutcomes(parent, children) :
                 /\ calls' = Append(calls, CreateCall(parent, args.title, children, ok))
                 /\ pages' = IF ok THEN Append(pages, page) ELSE pages
                 /\ result' = IF ok THEN CreatedResult(args.title, page)
                                    ELSE ErrorResult("Error creating Notion page")
    /\ pc' = "done"
    /\ UNCHANGED <<startup, tool, args, existing_page_id, i, invocations>>

(***************************************************************************)
(* _update_notion_page (lines 164-214) and _append_to_notion_page          *)
(* (lines 216-253): the batch loop, one step per notion call.              *)
(***************************************************************************)
Min(a, b) == IF a < b THEN a ELSE b

\* a slice that runs one block into the next batch
AppendBatchOverlapping(bs, k) == SubSeq(bs, k + 1, Min(k + batch_size + 1, Len(bs)))

\* blocks[i:i+batch_size] of line 189 and of line 228
UpdateBatchOf(bs, k) == SubSeq(bs, k + 1, Min(k + batch_size, Len(bs)))
AppendBatchOf(bs, k) == SubSeq(bs, k + 1, Min(k + batch_size, Len(bs)))

AppendCall(page_id, children, ok) ==
    [op |-> "append", block_id |-> page_id, children |-> children, ok |-> ok]

\* whether notion.blocks.children.append can succeed
AppendOutcomes(page_id, children) ==
    IF HasPage(pages, page_id) /\ GatewayAccepts(children) THEN BOOLEAN ELSE {FALSE}

\* page_url of lines 200 and 239
NotionUrl(page_id) == <<"https://notion.so/">> \o SelectSeq(page_id, LAMBDA c : c # "-")

AppendedResult(title, page_id) ==
    [status |-> "appended", message |-> <<"Appended content to existing Notion page", title>>,
     page_id |-> page_id, page_url |-> NotionUrl(page_id)]

\* a replace that deletes the children of the page before it appends
UpdateCallsDeleting(page_id, batch, ok) ==
    <<[op |-> "delete", block_id |-> page_id, ok |-> ok], AppendCall(page_id, batch, ok)>>

\* the calls one loop iteration of _update_notion_page makes for its batch
UpdateCalls(page_id, batch, ok) == <<AppendCall(page_id, batch, ok)>>

\* an append helper that looks the page up again before every batch
AppendCallsSearching(page_id, batch, ok) ==
    <<[op |-> "search", query |-> args.title, response |-> Raised],
      AppendCall(page_id, batch, ok)>>

\* the calls one loop iteration of _append_to_notion_page makes for its batch
AppendCalls(page_id, batch, ok) == <<AppendCall(page_id, batch, ok)>>

\* lines 183 / 222: the helper parses the content before its loop
HelperEnter(at, loop) ==
    /\ pc = at
    /\ blocks' = ParsedBlocks[args.content]
    /\ i' = 0
    /\ pc' = loop
    /\ UNCHANGED <<startup, pages, tool, args, existing_page_id, calls, result, invocations>>

UpdateEnter == HelperEnter("update_enter", "update_loop")
AppendEnter == HelperEnter("append_enter", "append_loop")

\* lines 188-198: one iteration; a failed call is logged and the loop goes on
UpdateBatch ==
    /\ pc = "update_loop"
    /\ i < Len(blocks)
    /\ LET batch == UpdateBatchOf(blocks, i)
       IN  \E ok \in AppendOutcomes(existing_page_id, batch) :
              /\ calls' = calls \o UpdateCalls(existing_page_id, batch, ok)
              /\ pages' = IF ok THEN StoreAppend(pages, existing_page_id, batch) ELSE pages
    /\ i' = i + batch_size
    /\ UNCHANGED <<startup, pc, tool, args, existing_page_id, blocks, result, invocations>>

\* lines 227-237
AppendBatch ==
    /\ pc = "append_loop"
    /\ i < Len(blocks)
    /\ LET batch == AppendBatchOf(blocks, i)
       IN  \E ok \in AppendOutcomes(existing_page_id, batch) :
              /\ calls' = calls \o AppendCalls(existing_page_id, batch, ok)
              /\ pages' = IF ok THEN StoreAppend(pages, existing_page_id, batch) ELSE pages
    /\ i' = i + batch_size
    /\ UNCHANGED <<startup, pc, tool, args, existing_page_id, blocks, result, invocations>>

\* a helper that reports an error when one of its batches failed
UpdateOutcomeStrict(title, page_id) ==
    IF \E k \in 1..Len(calls) : calls[k].op = "append" /\ ~calls[k].ok
    THEN [error |-> "Error appending to Notion page"]
    ELSE AppendedResult(title, page_id)

\* what the helper returns after its loop (lines 200-208 / 239-247)
UpdateOutcome(title, page_id) == AppendedResult(title, page_id)
AppendOutcome(title, page_id) == AppendedResult(title, page_id)

\* lines 200-208 and the handler's return of lines 453-459
UpdateReturn ==
    /\ pc = "update_loop"
    /\ i >= Len(blocks)
    /\ result' = UpdateOutcome(args.title, existing_page_id)
    /\ pc' = "done"
    /\ UNCHANGED <<startup, pages, tool, args, existing_page_id, blocks, i, calls, invocations>>

\* lines 239-247 and the handler's return of lines 441-447 / 491-497
AppendReturn ==
    /\ pc = "append_loop"
    /\ i >= Len(blocks)
    /\ result' = AppendOutcome(args.title, existing_page_id)
    /\ pc' = "done"
    /\ UNCHANGED <<startup, pages, tool, args, existing_page_id, blocks, i, calls, invocations>>

(***************************************************************************)
(* The other tools.                                                        *)
(***************************************************************************)
\* create_notion_page (lines 387-420): one paragraph holding the raw content
create_notion_page ==
    /\ pc = "create_tool"
    /\ LET parent   == [type |-> "page_id", page_id |-> notion_parent_id]
           children == <<Block("paragraph", args.content)>>
           page     == Page(NewId(pages), <<args.title>>, <<>>, children)
       IN  \E ok \in CreateOutcomes(parent, children) :
              /\ calls' = Append(calls, CreateCall(parent, args.title, children, ok))
              /\ pages' = IF ok THEN Append(pages, page) ELSE pages
              /\ result' = IF ok THEN [text |-> <<"Notion page created successfully! URL:">> \o page.url]
                                 ELSE [text |-> <<"Error creating Notion page">>]
    /\ pc' = "done"
    /\ UNCHANGED <<startup, tool, args, existing_page_id, blocks, i, invocations>>

\* search_notion_pages (lines 522-560)
PageInfo(hit) == [id |-> hit.id, url |-> hit.url, title |-> PageTitle(hit)]

search_notion_pages ==
    /\ pc = "search_tool"
    /\ \E o \in SearchOutcomes(pages) :
          /\ calls' = Append(calls, [op |-> "search", query |-> args.query, response |-> o])
          /\ result' = IF o.ok
                       THEN [query |-> args.query, total_results |-> Len(o.results),
                             pages |-> [k \in 1..Len(o.results) |-> PageInfo(o.results[k])]]
                       ELSE ErrorResult("Error searching Notion pages")
    /\ pc' = "done"
    /\ UNCHANGED <<startup, pages, tool, args, existing_page_id, blocks, i, invocations>>

\* get_notion_page_content, line 567: notion.pages.retrieve
GetRetrieve ==
    /\ pc = "get_retrieve"
    /\ \E ok \in (IF HasPage(pages, args.page_id) THEN BOOLEAN ELSE {FALSE}) :
          /\ calls' = Append(calls, [op |-> "retrieve", page_id |-> args.page_id, ok |-> ok])
          /\ pc' = IF ok THEN "get_list" ELSE "done"
          /\ result' = IF ok THEN result
                             ELSE ErrorResult("Error getting Notion page content")
    /\ UNCHANGED <<startup, pages, tool, args, existing_page_id, blocks, i, invocations>>

\* get_notion_page_content, lines 570-622: notion.blocks.children.list, then render
GetList ==
    /\ pc = "get_list"
    /\ LET page == pages[IndexOf(pages, args.page_id)]
       IN  \E ok \in BOOLEAN :
              /\ calls' = Append(calls, [op |-> "list", block_id |-> args.page_id, ok |-> ok])
              /\ result' = IF ok
                           THEN [page_id |-> args.page_id, title |-> PageTitle(page),
                                 url |-> page.url, content |-> Render(page.children)]
                           ELSE ErrorResult("Error getting Notion page content")
    /\ pc' = "done"
    /\ UNCHANGED <<startup, pages, tool, args, existing_page_id, blocks, i, invocations>>

\* test_connection (lines 630-634)
test_connection ==
    /\ pc = "test"
    /\ result' = [text |-> <<"MCP connection is working!">>]
    /\ pc' = "done"
    /\ UNCHANGED <<startup, pages, tool, args, existing_page_id, blocks, i, calls, invocations>>

(***************************************************************************)
(* Specifications.                                                         *)
(***************************************************************************)
InvokeAny == Invoke(AllTools, Contents, MaxInvocations)
Search == SearchStep(SearchOutcomes(pages))

Next ==
    \/ _init_notion
    \/ _register_tools
    \/ run
    \/ InvokeAny
    \/ Search
    \/ _create_notion_page
    \/ UpdateEnter
    \/ UpdateBatch
    \/ UpdateReturn
    \/ AppendEnter
    \/ AppendBatch
    \/ AppendReturn
    \/ create_notion_page
    \/ search_notion_pages
    \/ GetRetrieve
    \/ GetList
    \/ test_connection

Spec == Init /\ [][Next]_vars

\* only write_to_notion and append_to_notion are called, one after the other, and
\* every search succeeds and returns every stored page
InvokeUpsert == Invoke(UpsertTools, UpsertContents, MaxUpserts)
ReliableSearch == SearchStep(ReliableSearchOutcomes(pages))

NextUpsert ==
    \/ _init_notion
    \/ _register_tools
    \/ run
    \/ InvokeUpsert
    \/ ReliableSearch
    \/ _create_notion_page
    \/ UpdateEnter
    \/ UpdateBatch
    \/ UpdateReturn
    \/ AppendEnter
    \/ AppendBatch
    \/ AppendReturn

SpecUpsert == Init /\ [][NextUpsert]_vars

(***************************************************************************)
(* The converter and the renderer on their own: a document is converted    *)
(* one loop iteration at a time, the blocks are rendered as                *)
(* get_notion_page_content renders the children of a page, and the         *)
(* rendered text is converted again.                                       *)
(***************************************************************************)
\* how many lines a document has
MaxLines == 3

\* the lines documents are made of: blank, whitespace only, the three headings (one
\* with whitespace around it), the two bullet markers, numbered items with the ordinals
\* 9, 10 and 0, a bare fence, a fence with a language and whitespace, an indented word
ParseLines ==
    {
     <<>>,
     <<" ", "\t">>,
     <<"#", "#", "#", " ", "a">>,
     <<"#", "#", " ", "a">>,
     <<" ", "#", " ", "a", " ">>,
     <<"-", " ", "a">>,
     <<"*", " ", "a">>,
     <<"9", ".", " ", "x">>,
     <<"1", "0", ".", " ", "x">>,
     <<"0", ".", " ", "x">>,
     <<BT, BT, BT>>,
     <<" ", BT, BT, BT, "p", "y", " ">>,
     <<" ", "x">>
    }

\* the documents of at most n lines
Docs(n) == UNION {[1..k -> ParseLines] : k \in 0..n}

\* documents made of other lines: a fenced word; two numbered items; a heading whose
\* text starts with a space, a fence of six backticks and a bullet; a numbered item
\* whose text starts with a space, a blank line and a bullet whose text is a marker
ExampleDocs ==
    {<<BT, BT, BT, NL, "c", "o", "d", "e", NL, BT, BT, BT>>,
     <<"2", ".", " ", "a", NL, "3", ".", " ", "b">>,
     <<"#", " ", " ", "a", NL, BT, BT, BT, BT, BT, BT, NL, "-", " ", "a">>,
     <<"1", ".", " ", " ", "x", "\r", NL, NL, "*", " ", "#", " ", "a">>}

ParseContents == {Join(doc) : doc \in Docs(MaxLines)} \cup ExampleDocs

InitParse ==
    /\ env = [NOTION_API_KEY |-> <<"k">>, NOTION_PARENT_ID |-> EnvParent]
    /\ phase = "serving"
    /\ exit_code = <<>>
    /\ notion_api_key = <<"k">>
    /\ notion_parent_id = EnvParent
    /\ tools = AllTools
    /\ pages = InitialPages
    /\ pc = "parse"
    /\ tool = "<none>"
    /\ args \in {[NoArgs EXCEPT !.content = c] : c \in ParseContents}
    /\ existing_page_id = None
    /\ blocks = <<>>
    /\ i = 0
    /\ calls = <<>>
    /\ result = NoResult
    /\ invocations = 0

\* one iteration of the while loop of lines 263-378; i is the 0-based index of the code
ParseStep ==
    /\ pc \in {"parse", "reparse"}
    /\ \E lines \in {Split(args.content)} :
          /\ i < Len(lines)
          /\ \E st \in {LoopBody(lines, [i |-> i + 1, blocks |-> blocks])} :
                /\ i' = st.i - 1
                /\ blocks' = st.blocks
    /\ UNCHANGED <<startup, pages, pc, tool, args, existing_page_id, calls, result, invocations>>

\* line 380: the loop has ended and the blocks are returned
ParseReturn ==
    /\ pc \in {"parse", "reparse"}
    /\ i >= Len(Split(args.content))
    /\ pc' = IF pc = "parse" THEN "parsed" ELSE "reparsed"
    /\ result' = IF pc = "parse" THEN [blocks |-> blocks] ELSE result
    /\ UNCHANGED <<startup, pages, tool, args, existing_page_id, blocks, i, calls, invocations>>

\* lines 579-613 on the blocks returned
RenderParsed ==
    /\ pc = "parsed"
    /\ result' = [blocks |-> result.blocks, content |-> Render(result.blocks)]
    /\ pc' = "rendered"
    /\ UNCHANGED <<startup, pages, tool, args, existing_page_id, blocks, i, calls, invocations>>

\* the converter is called on the rendered text
Reparse ==
    /\ pc = "rendered"
    /\ args' = [args EXCEPT !.content = result.content]
    /\ blocks' = <<>>
    /\ i' = 0
    /\ pc' = "reparse"
    /\ UNCHANGED <<startup, pages, tool, existing_page_id, calls, result, invocations>>

NextParse ==
    \/ ParseStep
    \/ ParseReturn
    \/ RenderParsed
    \/ Reparse

SpecParse == InitParse /\ [][NextParse]_vars

\* the interpreter goes on running the loop
SpecParseLive == SpecParse /\ WF_vars(NextParse)

(***************************************************************************)
(* Vocabulary of the properties.  These definitions restate what the       *)
(* specification says; they do not use the operators that model the code's *)
(* lookup and batching.                                                    *)
(***************************************************************************)
Upsert == tool \in UpsertTools
Done == pc = "done"

\* the handler returned a record with this status
StatusIs(st) == "status" \in DOMAIN result /\ result.status = st
\* the handler returned a record holding only an error
IsErrorOnly == DOMAIN result = {"error"}

\* the calls after the search call
Writes == SubSeq(calls, 2, Len(calls))

IsWrite(c) == c.op \in {"create", "append"}

\* two strings equal up to letter case
SameLetter(c, d) == c = d \/ {c, d} \in {{"T", "t"}, {"U", "u"}, {"X", "x"}}
EqualIgnoringCase(a, b) == Len(a) = Len(b) /\ \A k \in 1..Len(a) : SameLetter(a[k], b[k])

\* the display title of a hit: the "title" slot if populated, else the "Name" slot,
\* else the empty string
DisplayTitle(hit) ==
    IF Len(hit.title) > 0 THEN hit.title[1]
    ELSE IF Len(hit.Name) > 0 THEN hit.Name[1]
    ELSE <<>>

Matches(hit, title) == EqualIgnoringCase(DisplayTitle(hit), title)

\* the answer of the search call of the running upsert, once it was made
Searched == Upsert /\ Len(calls) >= 1
SearchAnswered == Searched /\ calls[1].response.ok
Hits == calls[1].response.results
SomeHitMatches == \E k \in 1..Len(Hits) : Matches(Hits[k], args.title)

\* the upsert found a page / found none
FoundPath == SearchAnswered /\ SomeHitMatches
NoMatchPath == SearchAnswered /\ ~SomeHitMatches

\* the number of batches of n blocks, and the k-th batch of a block sequence
ChunkCount(n) == (n + 99) \div 100
Chunk(bs, k) ==
    [j \in 1..(IF k < ChunkCount(Len(bs)) THEN 100 ELSE Len(bs) - 100 * (k - 1)) |->
        bs[100 * (k - 1) + j]]

\* the k-th append call the found path is to make, whatever its outcome
ExpectedAppend(page_id, bs, k) ==
    [op |-> "append", block_id |-> page_id, children |-> Chunk(bs, k)]

WithoutOutcome(c) == [op |-> c.op, block_id |-> c.block_id, children |-> c.children]

\* the writes made so far are the first append calls of the schedule for bs
ScheduleSoFar(page_id, bs) ==
    /\ Len(Writes) <= ChunkCount(Len(bs))
    /\ \A k \in 1..Len(Writes) :
          /\ Writes[k].op = "append"
          /\ WithoutOutcome(Writes[k]) = ExpectedAppend(page_id, bs, k)

ScheduleComplete(page_id, bs) ==
    ScheduleSoFar(page_id, bs) /\ Len(Writes) = ChunkCount(Len(bs))

C2_CreateOnNoMatch ==
    (Upsert /\ Done /\ NoMatchPath) =>
        /\ Len(Writes) = 1
        /\ Writes[1].op = "create"
        /\ Writes[1].title = args.title
        /\ Writes[1].parent.page_id =
              (IF args.parent_id # None /\ Len(args.parent_id) > 0
               THEN args.parent_id ELSE env.NOTION_PARENT_ID)
        /\ Writes[1].children = ParsedBlocks[args.content]
        /\ (args.content = Hello =>
              Writes[1].children = <<[type |-> "paragraph", content |-> Hello]>>)
        /\ (Writes[1].ok =>
              /\ StatusIs("created")
              /\ result.page_id = pages[Len(pages)].id
              /\ result.page_url = pages[Len(pages)].url
              /\ pages[Len(pages)].title = <<args.title>>
              /\ pages[Len(pages)].children = ParsedBlocks[args.content])

\* "hello" written under a title no hit matches, with an explicit parent
C2_Witness ==
    /\ Upsert /\ Done /\ NoMatchPath
    /\ Len(Hits) > 0
    /\ args.content = Hello
    /\ args.parent_id = ParentArg
    /\ StatusIs("created")

(***************************************************************************)
(* C3.  Every write call an upsert makes, the create call as well as each   *)
(* append call, carries at most 100 blocks.                                 *)
(***************************************************************************)
C3_WritesBounded ==
    Upsert => \A k \in 1..Len(calls) : IsWrite(calls[k]) => Len(calls[k].children) <= 100

BatchSizes == [k \in 1..Len(Writes) |-> Len(Writes[k].children)]

(***************************************************************************)
(* C4.  On the found path n > 0 parsed blocks are written as ceil(n/100)    *)
(* append calls made one after the other: at every moment the calls made    *)
(* are the first batches of the schedule, each recorded with its outcome    *)
(* before the next is made; every batch but the last holds 100 blocks, the  *)
(* last the remainder, and the batches in order make up the parsed blocks;  *)
(* 250 blocks give 100, 100, 50.                                            *)
(***************************************************************************)
C4_Batches ==
    (Upsert /\ FoundPath) =>
        LET bs == ParsedBlocks[args.content]
        IN  /\ ScheduleSoFar(existing_page_id, bs)
            /\ \A k \in 1..Len(Writes) : Writes[k].ok \in BOOLEAN
            /\ (pc \in {"update_loop", "append_loop"} => i = 100 * Len(Writes))
            /\ Done =>
                 /\ Len(Writes) = ChunkCount(Len(bs))
                 /\ \A k \in 1..(Len(Writes) - 1) : Len(Writes[k].children) = 100
                 /\ Len(bs) > 0 =>
                       Len(Writes[Len(Writes)].children) = Len(bs) - 100 * (Len(Writes) - 1)
                 /\ \A n \in 1..Len(bs) :
                       Writes[((n - 1) \div 100) + 1].children[((n - 1) % 100) + 1] = bs[n]
                 /\ Len(bs) = 250 => BatchSizes = <<100, 100, 50>>

\* 250 blocks appended as 100, 100, 50
C4_Witness ==
    /\ Upsert /\ FoundPath /\ Done
    /\ Len(ParsedBlocks[args.content]) = 250
    /\ BatchSizes = <<100, 100, 50>>

ChildrenOf(store, id) == store[IndexOf(store, id)].children

C5_StepKeepsEarlierBatches ==
    (Upsert /\ FoundPath /\ Len(calls') = Len(calls) + 1 /\ calls'[Len(calls')].op = "append") =>
        LET c == calls'[Len(calls')]
        IN  /\ SubSeq(calls', 1, Len(calls)) = calls
            /\ ChildrenOf(pages', c.block_id) =
                  (IF c.ok THEN ChildrenOf(pages, c.block_id) \o c.children
                           ELSE ChildrenOf(pages, c.block_id))
            /\ pc' = pc

C5_DoneAppended ==
    (Upsert /\ FoundPath /\ Done) =>
        /\ ScheduleComplete(existing_page_id, ParsedBlocks[args.content])
        /\ "error" \notin DOMAIN result
        /\ StatusIs("appended")
        /\ result.page_id = existing_page_id

(***************************************************************************)
(* C5.  On the found path, whichever append calls fail, every batch is      *)
(* attempted exactly once in order, a failed batch is neither retried nor   *)
(* are the earlier batches rolled back, and the result is "appended" with   *)
(* the matched page's id, never an error.                                   *)
(***************************************************************************)
C5_PartialFailure == []C5_DoneAppended /\ [][C5_StepKeepsEarlierBatches]_vars

\* the second of three append calls failed, the third was made, the result is "appended"
C5_Witness ==
    /\ Upsert /\ FoundPath /\ Done
    /\ Len(Writes) = 3
    /\ Writes[1].ok /\ ~Writes[2].ok /\ Writes[3].ok
    /\ StatusIs("appended")

SearchFailed == Searched /\ ~calls[1].response.ok

(***************************************************************************)
(* C6.  When the search call itself fails, the upsert aborts: it returns an *)
(* error result and makes no create call and no append call.               *)
(***************************************************************************)
C6_SearchFailureAborts ==
    (Upsert /\ SearchFailed /\ pc # "search") =>
        /\ Len(calls) = 1
        /\ Done
        /\ IsErrorOnly

HandlerStep ==
    \/ Search
    \/ _create_notion_page
    \/ UpdateEnter \/ UpdateBatch \/ UpdateReturn
    \/ AppendEnter \/ AppendBatch \/ AppendReturn
    \/ create_notion_page
    \/ search_notion_pages
    \/ GetRetrieve \/ GetList
    \/ test_connection

Creates == SelectSeq(calls, LAMBDA c : c.op = "create")

(***************************************************************************)
(* C7.  Whatever call on the store fails, every tool call ends by returning *)
(* a value: a handler that has not returned can take a step, and a handler  *)
(* that ended has returned a value.  write_to_notion and append_to_notion   *)
(* return a record with status "created" or "appended", page_id and         *)
(* page_url, or a record holding only an error; a failed create gives the   *)
(* error record after exactly one create call.                              *)
(***************************************************************************)
C7_AlwaysReturns ==
    /\ (pc \notin {"idle", "done"}) => (result = NoResult /\ ENABLED HandlerStep)
    /\ Done =>
          /\ result # NoResult
          /\ DOMAIN result \in {{"status", "message", "page_id", "page_url"}, {"error"}, {"text"},
                                {"query", "total_results", "pages"},
                                {"page_id", "title", "url", "content"}}
          /\ Upsert =>
                /\ \/ /\ DOMAIN result = {"status", "message", "page_id", "page_url"}
                      /\ result.status \in {"created", "appended"}
                      /\ result.page_id # None /\ Len(result.page_id) > 0
                   \/ IsErrorOnly
                /\ Len(Creates) <= 1
                /\ (Len(Creates) = 1 /\ ~Creates[1].ok) => IsErrorOnly
                /\ (Len(Creates) = 1 /\ Creates[1].ok) => StatusIs("created")

\* a create that failed, answered by the error record
C7_Witness ==
    /\ Upsert /\ Done
    /\ Len(Creates) = 1 /\ ~Creates[1].ok
    /\ Creates[1].parent.page_id = ParentArg
    /\ IsErrorOnly

FirstMatch ==
    CHOOSE k \in 1..Len(Hits) :
        Matches(Hits[k], args.title) /\ \A h \in 1..(k - 1) : ~Matches(Hits[h], args.title)

(***************************************************************************)
(* C8.  The title lookup returns the id of the first hit, in result order,  *)
(* whose display title equals the requested title up to letter case (the    *)
(* whole title, not a part of it), and no match when no hit qualifies; the  *)
(* display title is the "title" slot if populated, else the "Name" slot,    *)
(* else the empty string, and a hit with neither slot is passed over.       *)
(***************************************************************************)
C8_Lookup ==
    (SearchAnswered /\ pc # "search") =>
        IF SomeHitMatches
        THEN existing_page_id = Hits[FirstMatch].id
        ELSE existing_page_id = None

\* the match is the third hit, by its "Name" slot and in another case, after a hit
\* with neither slot and a hit whose title only starts with the requested one
C8_Witness ==
    /\ SearchAnswered /\ pc # "search"
    /\ Len(Hits) = 4
    /\ Hits[1].title = <<>> /\ Hits[1].Name = <<>>
    /\ Hits[2].title = <<<<"T", "x">>>>
    /\ Hits[3].title = <<>> /\ Hits[3].Name = <<<<"T">>>>
    /\ Matches(Hits[4], args.title)
    /\ args.title = <<"t">>
    /\ existing_page_id = Hits[3].id

\* the pages the server created
CreatedPages(store) == {k \in 1..Len(store) : k > Len(InitialPages)}

CreatedFor(store, title) ==
    {k \in CreatedPages(store) : EqualIgnoringCase(store[k].title[1], title)}

C9_OnePagePerTitle ==
    \A a, b \in CreatedPages(pages) :
        EqualIgnoringCase(pages[a].title[1], pages[b].title[1]) => a = b

\* a step that makes a write call for a title a page was created for
C9_StepAppendsToCreated ==
    (Upsert /\ Len(calls') = Len(calls) + 1 /\ IsWrite(calls'[Len(calls')])
            /\ CreatedFor(pages, args.title) # {}) =>
        LET c == calls'[Len(calls')]
        IN  /\ c.op = "append"
            /\ \E k \in CreatedFor(pages, args.title) : c.block_id = pages[k].id
            /\ Len(pages') = Len(pages)

C9_ResultNamesCreated ==
    (Upsert /\ Done /\ CreatedFor(pages, args.title) # {} /\ ~StatusIs("created")) =>
        /\ StatusIs("appended")
        /\ \E k \in CreatedFor(pages, args.title) : result.page_id = pages[k].id

(***************************************************************************)
(* C9.  Under SpecUpsert (upserts only, one after the other, every search   *)
(* succeeding and returning every stored page) at most one page is created  *)
(* per title up to case: once a create for a title has succeeded, a later   *)
(* upsert with that title makes no create call and appends to that page.    *)
(***************************************************************************)
C9_CreateOnce ==
    /\ []C9_OnePagePerTitle
    /\ []C9_ResultNamesCreated
    /\ [][C9_StepAppendsToCreated]_vars

\* a page created for "U" and then appended to by an upsert of "u"
C9_Witness ==
    /\ Upsert /\ Done
    /\ args.title = <<"u">>
    /\ StatusIs("appended")
    /\ \E k \in CreatedPages(pages) :
          /\ pages[k].title = <<<<"U">>>>
          /\ result.page_id = pages[k].id
          /\ Len(pages[k].children) = 2

CredentialAbsent == env.NOTION_API_KEY = None \/ env.NOTION_API_KEY = <<>>
ParentAbsent == env.NOTION_PARENT_ID = None \/ env.NOTION_PARENT_ID = <<>>
NoExplicitParent == args.parent_id = None \/ args.parent_id = <<>>

C10_NoCredential ==
    CredentialAbsent =>
        /\ phase \in {"start", "exited"}
        /\ phase = "start" => ENABLED _init_notion
        /\ phase = "exited" => (exit_code = <<1>> /\ ~ENABLED Next)
        /\ tools = {}
        /\ invocations = 0 /\ pc = "idle"

C10_NoDefaultParent ==
    (~CredentialAbsent /\ ParentAbsent) =>
        /\ phase # "exited" /\ exit_code = <<>>
        /\ phase = "start" => ENABLED _init_notion
        /\ phase = "inited" => ENABLED _register_tools
        /\ phase = "registered" => (tools = AllTools /\ ENABLED run)
        /\ phase = "serving" => tools = AllTools
        /\ (phase = "serving" /\ invocations = 0) => ENABLED InvokeAny
        /\ (Upsert /\ Done /\ Len(Creates) = 1 /\ NoExplicitParent) =>
              /\ IsErrorOnly
              /\ ~Creates[1].ok

(***************************************************************************)
(* C10.  Startup.  Without the API credential the process exits with a      *)
(* non-zero status during initialisation, before any tool is registered or  *)
(* served.  With the credential and without the default parent, startup     *)
(* goes on to serve the tools, and a later create on the no-match path      *)
(* without an explicit parent_id ends in an error result, not a page.       *)
(***************************************************************************)
C10_Startup == C10_NoCredential /\ C10_NoDefaultParent

\* served without a default parent, a create without parent_id ended in an error
C10_Witness ==
    /\ ~CredentialAbsent /\ ParentAbsent
    /\ phase = "serving"
    /\ Upsert /\ Done /\ NoMatchPath /\ Len(Creates) = 1 /\ NoExplicitParent
    /\ IsErrorOnly

(***************************************************************************)
(* Vocabulary of the properties of the converter and the renderer, stated  *)
(* from the specification: lines, trimming, the classifier of a line that  *)
(* tries the longest marker first, and the text of a rendered block.       *)
(***************************************************************************)
\* the number of lines of a text and its j-th line: the characters between the
\* newlines j-1 and j
LineCount(s) == 1 + Cardinality({k \in 1..Len(s) : s[k] = NL})

TextLine(s, j) ==
    LET at == {k \in 1..Len(s) :
                  s[k] # NL /\ Cardinality({h \in 1..k : s[h] = NL}) = j - 1}
    IN  IF at = {} THEN <<>>
        ELSE LET first == CHOOSE k \in at : \A h \in at : k <= h
             IN  [n \in 1..Cardinality(at) |-> s[first + n - 1]]

\* a text without its leading and trailing whitespace
Trimmed(s) ==
    LET at == {k \in 1..Len(s) : s[k] \notin {" ", "\t", "\r"}}
    IN  IF at = {} THEN <<>>
        ELSE LET first == CHOOSE k \in at : \A h \in at : k <= h
                 last  == CHOOSE k \in at : \A h \in at : h <= k
             IN  [n \in 1..(last - first + 1) |-> s[first + n - 1]]

HasPrefix(s, p) == Len(p) <= Len(s) /\ \A k \in 1..Len(p) : s[k] = p[k]
After(s, n) == [k \in 1..(Len(s) - n) |-> s[k + n]]

OpensFence(s) == HasPrefix(Trimmed(s), <<BT, BT, BT>>)

\* the classifier of a trimmed line, longest marker first
Classify(s) ==
    IF HasPrefix(s, <<"#", "#", "#", " ">>) THEN [type |-> "heading_3", content |-> After(s, 4)]
    ELSE IF HasPrefix(s, <<"#", "#", " ">>) THEN [type |-> "heading_2", content |-> After(s, 3)]
    ELSE IF HasPrefix(s, <<"#", " ">>) THEN [type |-> "heading_1", content |-> After(s, 2)]
    ELSE IF HasPrefix(s, <<"-", " ">>) \/ HasPrefix(s, <<"*", " ">>)
         THEN [type |-> "bulleted_list_item", content |-> After(s, 2)]
    ELSE IF Len(s) >= 3 /\ s[1] \in {"1", "2", "3", "4", "5", "6", "7", "8", "9"}
                        /\ s[2] = "." /\ s[3] = " "
         THEN [type |-> "numbered_list_item", content |-> After(s, 3)]
    ELSE [type |-> "paragraph", content |-> s]

\* the converter is at a line, outside a code block
AtLine == pc \in {"parse", "reparse"} /\ i < LineCount(args.content)
CurrentLine == TextLine(args.content, i + 1)

\* the converter has returned the blocks of this text
Parsed(s) == pc = "parsed" /\ args.content = s

C11_Step ==
    (AtLine /\ Trimmed(CurrentLine) # <<>> /\ ~OpensFence(CurrentLine)) =>
        /\ blocks' = Append(blocks, Classify(Trimmed(CurrentLine)))
        /\ i' = i + 1

C11_Examples ==
    /\ Parsed(<<"#", "#", "#", " ", "a">>) => blocks = <<[type |-> "heading_3", content |-> <<"a">>]>>
    /\ Parsed(<<"#", "#", " ", "a">>) => blocks = <<[type |-> "heading_2", content |-> <<"a">>]>>
    /\ Parsed(<<" ", "#", " ", "a", " ">>) => blocks = <<[type |-> "heading_1", content |-> <<"a">>]>>
    /\ Parsed(<<"*", " ", "a">>) => blocks = <<[type |-> "bulleted_list_item", content |-> <<"a">>]>>
    /\ Parsed(<<"9", ".", " ", "x">>) => blocks = <<[type |-> "numbered_list_item", content |-> <<"x">>]>>
    /\ Parsed(<<"1", "0", ".", " ", "x">>) => blocks = <<[type |-> "paragraph", content |-> <<"1", "0", ".", " ", "x">>]>>
    /\ Parsed(<<"0", ".", " ", "x">>) => blocks = <<[type |-> "paragraph", content |-> <<"0", ".", " ", "x">>]>>

(***************************************************************************)
(* C11.  Under SpecParse, for every non-blank line outside a code block the *)
(* block the converter appends is the one the longest-marker-first          *)
(* classifier gives for the trimmed line: "### " heading 3, "## " heading   *)
(* 2, "# " heading 1, "- " or "* " a bullet item, one digit 1-9 and ". " a  *)
(* numbered item, anything else ("10. x" and "0. x" too) a paragraph of     *)
(* the whole trimmed line; the text is what follows the marker, so "### a"  *)
(* is a heading 3 "a" and "9. x" a numbered item "x".                       *)
(***************************************************************************)
C11_Classifier == []C11_Examples /\ [][C11_Step]_vars

\* a heading with whitespace around it, "10. x" and "9. x" converted to a heading 1,
\* a paragraph and a numbered item
C11_Witness ==
    /\ Parsed(<<" ", "#", " ", "a", " ", NL, "1", "0", ".", " ", "x", NL, "9", ".", " ", "x">>)
    /\ blocks = <<[type |-> "heading_1", content |-> <<"a">>],
                  [type |-> "paragraph", content |-> <<"1", "0", ".", " ", "x">>],
                  [type |-> "numbered_list_item", content |-> <<"x">>]>>

\* the number of the line the character at k belongs to (a newline ends its line)
LineNo(s, k) == 1 + Cardinality({h \in 1..(k - 1) : s[h] = NL})

\* the lines a..b of a text as they stand, joined by newline
Body(s, a, b) ==
    LET at == {k \in 1..Len(s) :
                  /\ a <= LineNo(s, k) /\ LineNo(s, k) <= b
                  /\ ~(s[k] = NL /\ LineNo(s, k) = b)}
    IN  IF at = {} THEN <<>>
        ELSE LET first == CHOOSE k \in at : \A h \in at : k <= h
             IN  [n \in 1..Cardinality(at) |-> s[first + n - 1]]

\* the first line after line j whose trimmed form starts with a fence, or one past
\* the last line when there is none
ClosingLine(s, j) ==
    LET closing == {k \in (j + 1)..LineCount(s) : OpensFence(TextLine(s, k))}
    IN  IF closing = {} THEN LineCount(s) + 1
        ELSE CHOOSE k \in closing : \A h \in closing : k <= h

\* the code block opened by line j of a text
FencedBlock(s, j) ==
    LET declared == Trimmed(After(Trimmed(TextLine(s, j)), 3))
    IN  [type     |-> "code",
         language |-> IF declared = <<>> THEN <<"p", "l", "a", "i", "n", " ", "t", "e", "x", "t">> ELSE declared,
         content  |-> Body(s, j + 1, ClosingLine(s, j) - 1)]

C12_Step ==
    (AtLine /\ OpensFence(CurrentLine)) =>
        LET close == ClosingLine(args.content, i + 1)
        IN  /\ blocks' = Append(blocks, FencedBlock(args.content, i + 1))
            \* 0-based: the line after the closing line, or the end of the input
            /\ i' = IF close <= LineCount(args.content) THEN close
                                                       ELSE LineCount(args.content)

C12_Examples ==
    /\ Parsed(<<BT, BT, BT, NL, "c", "o", "d", "e", NL, BT, BT, BT>>) =>
          blocks = <<[type |-> "code", language |-> <<"p", "l", "a", "i", "n", " ", "t", "e", "x", "t">>, content |-> <<"c", "o", "d", "e">>]>>
    /\ Parsed(<<BT, BT, BT, NL, BT, BT, BT>>) =>
          blocks = <<[type |-> "code", language |-> <<"p", "l", "a", "i", "n", " ", "t", "e", "x", "t">>, content |-> <<>>]>>
    /\ Parsed(<<BT, BT, BT>>) =>
          blocks = <<[type |-> "code", language |-> <<"p", "l", "a", "i", "n", " ", "t", "e", "x", "t">>, content |-> <<>>]>>
    /\ Parsed(<<" ", BT, BT, BT, "p", "y", " ", NL, " ", "x">>) =>
          blocks = <<[type |-> "code", language |-> <<"p", "y">>, content |-> <<" ", "x">>]>>
    /\ Parsed(<<BT, BT, BT, NL, " ", "x", NL, "-", " ", "a">>) =>
          blocks = <<[type |-> "code", language |-> <<"p", "l", "a", "i", "n", " ", "t", "e", "x", "t">>, content |-> <<" ", "x", NL, "-", " ", "a">>]>>

(***************************************************************************)
(* C12.  Under SpecParse, a line whose trimmed form starts with the fence   *)
(* opens a code block and gives exactly one code block: its language is the *)
(* trimmed text after the fence, or "plain text" when that is empty; its    *)
(* text is the following lines as they stand, joined by newline, up to the  *)
(* next line whose trimmed form starts with the fence (that line is         *)
(* consumed and gives no block) or to the end of the input; an empty body   *)
(* gives a code block with empty text.                                      *)
(***************************************************************************)
C12_CodeFence == []C12_Examples /\ [][C12_Step]_vars

\* a fence with a language, an indented line, and a closing line that carries text:
\* one code block, the closing line gives none
C12_Witness ==
    /\ Parsed(<<" ", BT, BT, BT, "p", "y", " ", NL, " ", "x", NL, " ", BT, BT, BT, "p", "y", " ">>)
    /\ blocks = <<[type |-> "code", language |-> <<"p", "y">>, content |-> <<" ", "x">>]>>

\* every line of the text is empty or whitespace only
BlankOnly(s) == \A j \in 1..LineCount(s) : Trimmed(TextLine(s, j)) = <<>>

Converting == pc \in {"parse", "reparse"}
Converted == pc \in {"parsed", "reparsed"}

\* an iteration of the loop moves the line index forward and not past the end
C13_Progress ==
    (Converting /\ pc' = pc) => (i < i' /\ i' <= LineCount(args.content))

\* the converter can always go on or return; what it returns is what
\* _content_to_notion_blocks gives for the text, nothing for blank lines only
C13_Safe ==
    /\ Converting => (i <= LineCount(args.content) /\ ENABLED (ParseStep \/ ParseReturn))
    /\ Converted =>
          /\ i = LineCount(args.content)
          /\ blocks = _content_to_notion_blocks(args.content)
          /\ BlankOnly(args.content) => blocks = <<>>
    /\ Parsed(<<>>) => blocks = <<>>

(***************************************************************************)
(* C13.  Under SpecParseLive the converter is total: on every input its     *)
(* forward pass ends (every loop iteration moves the line index forward,    *)
(* and the run reaches the return) and it returns a block sequence without  *)
(* raising, for a code block that is never closed too; the empty text and   *)
(* texts of blank or whitespace-only lines give the empty sequence.         *)
(***************************************************************************)
C13_Total ==
    /\ []C13_Safe
    /\ [][C13_Progress]_vars
    /\ (Converting ~> Converted)

\* a bullet and a code block that is never closed, converted to the end of the input
C13_Witness ==
    /\ Parsed(<<"-", " ", "a", NL, " ", BT, BT, BT, "p", "y", " ", NL, " ", "x">>)
    /\ i = 3
    /\ blocks = <<[type |-> "bulleted_list_item", content |-> <<"a">>],
                  [type |-> "code", language |-> <<"p", "y">>, content |-> <<" ", "x">>]>>

\* whitespace-only lines converted to no block
C13_BlankWitness == Parsed(<<" ", "\t", NL, NL, " ", "\t">>) /\ blocks = <<>> /\ i = 3

\* the text of one rendered block
Hashes(n) == [k \in 1..n |-> "#"]

Entry(b) ==
    CASE b.type = "heading_1" -> Hashes(1) \o <<" ">> \o b.content
      [] b.type = "heading_2" -> Hashes(2) \o <<" ">> \o b.content
      [] b.type = "heading_3" -> Hashes(3) \o <<" ">> \o b.content
      [] b.type = "bulleted_list_item" -> <<"-", " ">> \o b.content
      [] b.type = "numbered_list_item" -> <<"1", ".", " ">> \o b.content
      [] b.type = "code" ->
            <<BT, BT, BT>> \o b.language \o <<NL>> \o b.content \o <<NL>> \o <<BT, BT, BT>>
      [] b.type = "paragraph" -> b.content

\* one entry per block, in order, joined by newline
RECURSIVE Entries(_)
Entries(bs) ==
    IF bs = <<>> THEN <<>>
    ELSE IF Len(bs) = 1 THEN Entry(bs[1])
    ELSE Entry(bs[1]) \o <<NL>> \o Entries(Tail(bs))

\* the renderer has returned the text of the blocks of this text
Rendered(s) == pc = "rendered" /\ args.content = s

(***************************************************************************)
(* C14.  Under SpecParse, rendering a block sequence gives one entry per    *)
(* block in document order, joined by newline: a heading n as n hash        *)
(* characters, a space and the text; a bullet item as "- " and the text;    *)
(* every numbered item as "1. " and the text whatever its ordinal was; a    *)
(* code block as a fence with the stored language, the text and a closing   *)
(* fence; a paragraph as its text.  The blocks of "2. a", "3. b" render as  *)
(* two lines that both start with "1. ".                                    *)
(***************************************************************************)
C14_Render ==
    /\ pc = "rendered" => result.content = Entries(result.blocks)
    /\ Rendered(<<"2", ".", " ", "a", NL, "3", ".", " ", "b">>) => result.content = <<"1", ".", " ", "a", NL, "1", ".", " ", "b">>
    /\ Rendered(<<BT, BT, BT, NL, "c", "o", "d", "e", NL, BT, BT, BT>>) => result.content = <<BT, BT, BT, "p", "l", "a", "i", "n", " ", "t", "e", "x", "t", NL, "c", "o", "d", "e", NL, BT, BT, BT>>

\* the numbered items "2. a" and "3. b" rendered as "1. a" and "1. b"
C14_Witness ==
    /\ Rendered(<<"2", ".", " ", "a", NL, "3", ".", " ", "b">>)
    /\ Len(result.blocks) = 2
    /\ result.content = <<"1", ".", " ", "a", NL, "1", ".", " ", "b">>

\* a heading 3, a code block with a language and a bullet rendered in order
C14_MixedWitness ==
    /\ Rendered(<<"#", "#", "#", " ", "a", NL, " ", BT, BT, BT, "p", "y", " ", NL, "*", " ", "a">>)
    /\ result.content = <<"#", "#", "#", " ", "a", NL, BT, BT, BT, "p", "y", NL, "*", " ", "a", NL, BT, BT, BT>>

\* the calls of the running upsert, by kind
Searches == SelectSeq(calls, LAMBDA c : c.op = "search")
Appends == SelectSeq(calls, LAMBDA c : c.op = "append")

\* the page the search of the running upsert matched
MatchedIds == {Hits[k].id : k \in {h \in 1..Len(Hits) : Matches(Hits[h], args.title)}}

C15_Order ==
    Upsert =>
        /\ pc = "search" => calls = <<>>
        /\ pc # "search" =>
              /\ Len(calls) >= 1
              /\ calls[1].op = "search"
              /\ Len(Searches) = 1
              /\ \A k \in 2..Len(calls) : calls[k].op \in {"create", "append"}
              /\ Len(Creates) = 0 \/ Len(Appends) = 0
              /\ Len(Creates) <= 1
              /\ Len(Appends) > 0 =>
                    /\ SearchAnswered
                    /\ \A k \in 1..Len(Appends) : Appends[k].block_id \in MatchedIds
        /\ Done =>
              \/ Len(Creates) = 1 /\ Len(Appends) = 0
              \/ Len(Creates) = 0 /\ FoundPath
        /\ result # NoResult => Done

\* a call is made only before the result is determined, and the result stays
C15_Step ==
    (Upsert /\ invocations' = invocations) =>
        /\ Len(calls') >= Len(calls) /\ SubSeq(calls', 1, Len(calls)) = calls
        /\ (calls' # calls \/ pages' # pages) => (result = NoResult /\ ~Done)
        /\ result # NoResult => result' = result

(***************************************************************************)
(* C15.  In every write_to_notion or append_to_notion call exactly one      *)
(* search call is made and it comes before every write call; then either    *)
(* one create call and no append call is made, or append calls only, all to *)
(* the page the search matched, and no create call, never both; no call on  *)
(* the store is made after the result is determined.                        *)
(***************************************************************************)
C15_CallOrder == []C15_Order /\ [][C15_Step]_vars

\* append_to_notion ended after one search and three append calls to the matched page
C15_Witness ==
    /\ tool = "append_to_notion" /\ Done
    /\ Len(calls) = 4 /\ Len(Searches) = 1 /\ Len(Appends) = 3
    /\ \A k \in 1..3 : Appends[k].block_id = existing_page_id
    /\ existing_page_id \in MatchedIds

\* write_to_notion ended after one search and one create call
C15_CreateWitness ==
    /\ tool = "write_to_notion" /\ Done
    /\ Len(calls) = 2 /\ calls[1].op = "search" /\ calls[2].op = "create"
    /\ StatusIs("created")

\* the rendered text of the first blocks has been converted again
Reconverted == pc = "reparsed"

SameBlock(a, b) ==
    /\ a.type = b.type
    /\ a.content = b.content
    /\ (a.type = "code" => (b.type = "code" /\ a.language = b.language))

(***************************************************************************)
(* C16.  Under SpecParse, converting is a fixed point of rendering on the   *)
(* converter's outputs: for every text, converting the text rendered from   *)
(* its blocks gives the same blocks again, the same number in the same      *)
(* order with the same types, code languages and texts.                     *)
(***************************************************************************)
C16_FixedPoint ==
    Reconverted =>
        /\ args.content = result.content
        /\ Len(blocks) = Len(result.blocks)
        /\ \A k \in 1..Len(blocks) : SameBlock(blocks[k], result.blocks[k])
        /\ blocks = result.blocks

\* a numbered item "9. x" and a code block that was never closed, rendered as "1. x"
\* and a closed code block, and converted to the same two blocks
C16_Witness ==
    /\ Reconverted
    /\ args.content = <<"1", ".", " ", "x", NL, BT, BT, BT, "p", "y", NL, " ", "x", NL, BT, BT, BT>>
    /\ blocks = <<[type |-> "numbered_list_item", content |-> <<"x">>],
                  [type |-> "code", language |-> <<"p", "y">>, content |-> <<" ", "x">>]>>
    /\ blocks = result.blocks
====
